---- MODULE Spec2Model ----
(***************************************************************************)
(* Emotion-driven song player (app.py): the non-repeating song rotation    *)
(* (get_next_song) and the playback state machine driven by the detection  *)
(* loop (mjpeg_generator) and the client notifications (song_started,      *)
(* song_ended), all guarded by state_lock.                                 *)
(***************************************************************************)
EXTENDS Integers, Sequences, FiniteSets, TLC

(***************************************************************************)
(* Bounds of the model.                                                    *)
(***************************************************************************)
\* how many of the classifier's labels (a prefix of LabelOrder) occur
NumLabels == 3
\* confidence scores are the levels 0..MaxConf (the code's floats in [0,1])
MaxConf == 1
\* SpecRot stops after this many calls of get_next_song
MaxPicks == 5
\* SpecThreads: concurrent /video_feed streams, each running mjpeg_generator
NumLoops == 2
\* SpecThreads: concurrent request threads serving the POST routes
NumClients == 2
\* longest run of ticks that is counted
MaxStreak == 4

(***************************************************************************)
(* Configuration and collaborators.                                        *)
(***************************************************************************)
\* Python's None
None == "None"

\* emotion_to_songs: the catalog, category -> list of song filenames
emotion_to_songs ==
    [e \in {"happy", "sad", "angry", "neutral"} |->
        CASE e = "happy"   -> <<"happy1.mp3", "happy2.mp3">>
          [] e = "sad"     -> <<"sad1.mp3", "sad2.mp3">>
          [] e = "angry"   -> <<"angry1.mp3", "angry2.mp3">>
          [] e = "neutral" -> <<"neutral1.mp3", "neutral2.mp3">>]

Catalog == DOMAIN emotion_to_songs

\* the labels the classifier scores, catalog keys and others ("fear", ...)
LabelOrder == <<"neutral", "happy", "fear", "sad", "angry", "disgust", "surprise">>

Emotions == {LabelOrder[i] : i \in 1..NumLabels}

Range(s) == {s[i] : i \in 1..Len(s)}

\* emotion_to_songs.get(emotion, [])
SongsOf(emotion) ==
    IF emotion \in DOMAIN emotion_to_songs THEN emotion_to_songs[emotion] ELSE <<>>

AllSongs == UNION {Range(emotion_to_songs[e]) : e \in Catalog}

\* What detector.detect_emotions delivers on one tick: it raises, finds no
\* face, finds a face without scores, or scores a dominant label.
ClassifierResults ==
    {[kind |-> k, dominant |-> None, score |-> 0] :
        k \in {"error", "nofaces", "noscores"}}
    \cup {[kind |-> "scores", dominant |-> d, score |-> c] :
        d \in Emotions, c \in 0..MaxConf}

\* the default of lines 116-121 is forgotten
Dominant_nodefault(result) == result.dominant

\* lines 111-121: the dominant label of a result, "neutral" when there is none
Dominant(result) ==
    IF result.kind = "scores" THEN result.dominant ELSE "neutral"

\* lines 111-121: its confidence, 0.0 when there is none
Confidence(result) ==
    IF result.kind = "scores" THEN result.score ELSE 0

(***************************************************************************)
(* State.                                                                  *)
(***************************************************************************)
VARIABLES
    next_emotion,        \* latest detected emotion
    current_confidence,  \* its confidence
    current_emotion,     \* locked emotion of the assigned song
    current_song,        \* filename assigned to the client, or None
    song_assigned,       \* a song is assigned
    song_playing,        \* the client reported that playback started
    played_songs,        \* category -> songs served in the current cycle
    last,                \* history variable: the last operation and its outcome
    picks,               \* history variable: every (emotion, song) returned
    state_lock,          \* the thread holding state_lock, 0 when it is free
    pc,                  \* where each thread stands in its code
    loc,                 \* the locals of each loop, the resp of each request
    song_files,          \* the song files present in static/songs
    streak               \* history variable: the run of ticks on one category

machine == <<next_emotion, current_confidence, current_emotion, current_song,
             song_assigned, song_playing, played_songs>>

threads == <<state_lock, pc, loc>>

vars == <<next_emotion, current_confidence, current_emotion, current_song,
          song_assigned, song_playing, played_songs, last, picks,
          state_lock, pc, loc, song_files, streak>>

\* what only the fixed-files specification moves
fixed == <<song_files, streak>>

Loops == 1..NumLoops
Clients == (NumLoops + 1)..(NumLoops + NumClients)

\* the locals of mjpeg_generator before they are first assigned
NoLocals == [dominant |-> None, confidence |-> 0, chosen |-> None]

\* line 182: song_url is the static path of the song, or null
NoUrl == <<>>
song_url(song) == IF song # None THEN <<"/static/songs/", song>> ELSE NoUrl

\* the resp of get_state before it is built
NoResp == [next_emotion |-> None, locked_emotion |-> None, confidence |-> 0,
           song_assigned |-> FALSE, song_playing |-> FALSE,
           song_filename |-> None, song_url |-> NoUrl]

\* the record of an operation op that follows the operation recorded in before;
\* kind is what the classifier delivered, for a detection tick
Did(before, op, chosen, exists, raised) ==
    [op |-> op, prev |-> before.op, chosen |-> chosen, exists |-> exists,
     raised |-> raised, kind |-> None]

InitMachine ==
    /\ next_emotion = None
    /\ current_confidence = 0
    /\ current_emotion = None
    /\ current_song = None
    /\ song_assigned = FALSE
    /\ song_playing = FALSE
    /\ played_songs = [e \in Catalog |-> <<>>]
    /\ last = [op |-> "init", prev |-> "init", chosen |-> None,
               exists |-> FALSE, raised |-> FALSE, kind |-> None]
    /\ picks = <<>>
    /\ state_lock = 0
    /\ pc = [t \in Loops \cup Clients |-> IF t \in Loops THEN "frame" ELSE "idle"]
    /\ loc = [t \in Loops \cup Clients |->
                IF t \in Loops THEN NoLocals ELSE NoResp]

\* no run of ticks is being counted
NoStreak == [emotion |-> None, n |-> 0, fresh |-> FALSE, done |-> FALSE]

Init ==
    /\ InitMachine
    /\ song_files = AllSongs
    /\ streak = NoStreak

(***************************************************************************)
(* get_next_song (lines 55-65).                                            *)
(***************************************************************************)
\* the reset is forgotten
ResetIfFull_never(emotion, played) == played

\* lines 60-61: a full history is reset before the pick
ResetIfFull(emotion, played) ==
    IF Len(played[emotion]) = Len(SongsOf(emotion))
    THEN [played EXCEPT ![emotion] = <<>>]
    ELSE played

\* the history is never subtracted: every song stays eligible
Remaining_all(emotion, played) == Range(SongsOf(emotion))

\* line 62: remaining = list(set(songs) - set(played_songs[emotion]))
Remaining(emotion, played) ==
    Range(SongsOf(emotion)) \ Range(played[emotion])

\* line 63: the values random.choice can return (none for an empty list)
Choices(emotion, played) ==
    IF SongsOf(emotion) = <<>>
    THEN {None}
    ELSE LET rem == Remaining(emotion, ResetIfFull(emotion, played))
         IN  IF rem = {} THEN {None} ELSE rem

\* without the guard of lines 58-59: played_songs[emotion] raises KeyError for a
\* label that is no key, and an empty list reaches random.choice
get_next_song_unguarded(emotion, played, choice) ==
    IF SongsOf(emotion) = <<>>
    THEN [ret |-> None,
          played |-> [e \in DOMAIN played |-> <<>>],
          raised |-> TRUE]
    ELSE LET reset == ResetIfFull(emotion, played)
         IN  [ret |-> choice,
              played |-> [reset EXCEPT ![emotion] = Append(@, choice)],
              raised |-> FALSE]

\* line 64 is forgotten: the choice is not appended to the history
get_next_song_unrecorded(emotion, played, choice) ==
    IF SongsOf(emotion) = <<>>
    THEN [ret |-> None, played |-> played, raised |-> FALSE]
    ELSE [ret |-> choice, played |-> ResetIfFull(emotion, played),
          raised |-> FALSE]

\* get_next_song(emotion) with random.choice returning choice: the value
\* returned, the history afterwards, and whether it raised (random.choice of
\* an empty list)
get_next_song(emotion, played, choice) ==
    IF SongsOf(emotion) = <<>>
    THEN [ret |-> None, played |-> played, raised |-> FALSE]
    ELSE LET reset == ResetIfFull(emotion, played)
         IN  IF Remaining(emotion, reset) = {}
             THEN [ret |-> None, played |-> reset, raised |-> TRUE]
             ELSE [ret |-> choice,
                   played |-> [reset EXCEPT ![emotion] = Append(@, choice)],
                   raised |-> FALSE]

(***************************************************************************)
(* The playback state machine: one action per critical section.            *)
(***************************************************************************)
\* line 131: next_emotion or "neutral"
OrNeutral(emotion) == IF emotion = None THEN "neutral" ELSE emotion

\* the test of song_assigned is inverted
MayAssign_inverted(assigned, playing) == assigned /\ ~playing

\* only the playing flag is tested
MayAssign_playing(assigned, playing) == ~playing

\* line 129: no song is assigned or playing
MayAssign(assigned, playing) == ~assigned /\ ~playing

\* the existence test is forgotten
Accept_any(chosen, exists) == chosen # None

\* the existence test is inverted
Accept_missing(chosen, exists) == chosen # None /\ ~exists

\* line 133: chosen and os.path.exists(os.path.join(SONG_DIR, chosen))
Accept(chosen, exists) == chosen # None /\ exists

\* lines 106-139: one detection tick of mjpeg_generator. result is what the
\* classifier delivers, choice what random.choice returns, exists whether the
\* song files are there (what os.path.exists answers when it is asked).
Detect(result, choice, exists) ==
    /\ next_emotion' = Dominant(result)
    /\ current_confidence' = Confidence(result)
    /\ IF MayAssign(song_assigned, song_playing)
       THEN LET locked == OrNeutral(next_emotion')
                got == get_next_song(locked, played_songs, choice)
            IN  /\ choice \in Choices(locked, played_songs)
                /\ current_emotion' = locked
                /\ played_songs' = got.played
                /\ IF got.raised
                   THEN UNCHANGED <<current_song, song_assigned>>
                   ELSE IF Accept(got.ret, exists)
                   THEN /\ current_song' = got.ret
                        /\ song_assigned' = TRUE
                   ELSE /\ current_song' = None
                        /\ song_assigned' = FALSE
                /\ last' = [Did(last, "detect", got.ret, exists, got.raised)
                               EXCEPT !.kind = result.kind]
       ELSE /\ choice = None
            /\ UNCHANGED <<current_emotion, current_song, song_assigned,
                           played_songs>>
            /\ last' = [Did(last, "detect", None, exists, FALSE)
                           EXCEPT !.kind = result.kind]
    /\ UNCHANGED <<song_playing, picks, threads>>

\* every tick the classifier, random.choice and the file system allow
DetectTick ==
    \E result \in ClassifierResults, exists \in BOOLEAN :
        \E choice \in Choices(OrNeutral(Dominant(result)), played_songs)
                        \cup {None} :
            Detect(result, choice, exists)

\* the notification is honoured only while a song is assigned
song_started_guarded ==
    /\ song_playing' = song_assigned
    /\ last' = Did(last, "song_started", None, FALSE, FALSE)
    /\ UNCHANGED <<next_emotion, current_confidence, current_emotion,
                   current_song, song_assigned, played_songs, picks, threads>>

\* lines 186-192: POST /song_started
song_started ==
    /\ song_playing' = TRUE
    /\ last' = Did(last, "song_started", None, FALSE, FALSE)
    /\ UNCHANGED <<next_emotion, current_confidence, current_emotion,
                   current_song, song_assigned, played_songs, picks, threads>>

\* current_song is not cleared
song_ended_keeps_song ==
    /\ song_playing' = FALSE
    /\ song_assigned' = FALSE
    /\ last' = Did(last, "song_ended", None, FALSE, FALSE)
    /\ UNCHANGED <<next_emotion, current_confidence, current_emotion,
                   current_song, played_songs, picks, threads>>

\* the locked emotion is cleared with the rest
song_ended_unlock ==
    /\ song_playing' = FALSE
    /\ song_assigned' = FALSE
    /\ current_song' = None
    /\ current_emotion' = None
    /\ last' = Did(last, "song_ended", None, FALSE, FALSE)
    /\ UNCHANGED <<next_emotion, current_confidence, played_songs, picks,
                   threads>>

\* lines 194-203: POST /song_ended
song_ended ==
    /\ song_playing' = FALSE
    /\ song_assigned' = FALSE
    /\ current_song' = None
    /\ last' = Did(last, "song_ended", None, FALSE, FALSE)
    /\ UNCHANGED <<next_emotion, current_confidence, current_emotion,
                   played_songs, picks, threads>>

Next ==
    \/ DetectTick /\ UNCHANGED fixed
    \/ song_started /\ UNCHANGED fixed
    \/ song_ended /\ UNCHANGED fixed

Spec == Init /\ [][Next]_vars

(***************************************************************************)
(* The detection loop keeps ticking: the ticks detect a category that has  *)
(* songs, every song file is there, and the loop is never starved (while   *)
(* True, lines 85-140); the client notifies as it likes.                   *)
(***************************************************************************)
GoodTick ==
    \E result \in ClassifierResults :
        /\ Dominant(result) \in Catalog
        /\ \E choice \in Choices(OrNeutral(Dominant(result)), played_songs)
                           \cup {None} :
               Detect(result, choice, TRUE) /\ UNCHANGED fixed

NextLive ==
    \/ GoodTick
    \/ song_started /\ UNCHANGED fixed
    \/ song_ended /\ UNCHANGED fixed

SpecLive == Init /\ [][NextLive]_vars /\ WF_vars(GoodTick)

(***************************************************************************)
(* The playback state machine over a fixed static/songs directory: which   *)
(* song files are there is chosen once, and os.path.exists (line 133)      *)
(* answers from it.  streak counts the ticks on one category while no song *)
(* is assigned and the client is silent.  The confidence plays no part in  *)
(* the assignment, so the ticks here carry the lowest one.                 *)
(***************************************************************************)
\* the directories considered: any files of two categories may be missing
FileSets ==
    {AllSongs \ missing :
        missing \in SUBSET (Range(SongsOf("happy")) \cup Range(SongsOf("neutral")))}

InitFixed ==
    /\ InitMachine
    /\ song_files \in FileSets
    /\ streak = NoStreak

TickFixed(result, choice) ==
    LET c == OrNeutral(Dominant(result))
        idle == MayAssign(song_assigned, song_playing)
        continues == /\ streak.emotion = c
                     /\ streak.n > 0
                     /\ streak.n < MaxStreak
    IN  /\ Detect(result, choice, choice \in song_files)
        /\ streak' = IF ~idle \/ c \notin Catalog
                          THEN NoStreak
                      ELSE IF continues
                          THEN [streak EXCEPT !.n = @ + 1,
                                              !.done = song_assigned']
                      ELSE [emotion |-> c, n |-> 1,
                            fresh |-> played_songs[c] = <<>>,
                            done |-> song_assigned']
        /\ UNCHANGED song_files

DetectFixed ==
    \E result \in {r \in ClassifierResults : r.score = 0} :
        \E choice \in Choices(OrNeutral(Dominant(result)), played_songs)
                        \cup {None} :
            TickFixed(result, choice)

NextFixed ==
    \/ DetectFixed
    \/ song_started /\ streak' = NoStreak /\ UNCHANGED song_files
    \/ song_ended /\ streak' = NoStreak /\ UNCHANGED song_files

SpecFixed == InitFixed /\ [][NextFixed]_vars

(***************************************************************************)
(* The rotation policy on its own: any sequence of calls of get_next_song, *)
(* for any labels, each call logged in picks.                              *)
(***************************************************************************)
Pick(emotion, choice) ==
    /\ Len(picks) < MaxPicks
    /\ choice \in Choices(emotion, played_songs)
    /\ LET got == get_next_song(emotion, played_songs, choice)
       IN  /\ played_songs' = got.played
           /\ picks' = Append(picks, [emotion |-> emotion, ret |-> got.ret])
           /\ last' = Did(last, "get_next_song", got.ret, FALSE, got.raised)
    /\ UNCHANGED <<next_emotion, current_confidence, current_emotion,
                   current_song, song_assigned, song_playing, threads>>

NextRot ==
    \E emotion \in Emotions, choice \in AllSongs \cup {None} :
        Pick(emotion, choice) /\ UNCHANGED fixed

SpecRot == Init /\ [][NextRot]_vars

\* the songs returned for one category, in order
ReturnedFor(emotion) ==
    LET mine == SelectSeq(picks, LAMBDA p : p.emotion = emotion)
    IN  [i \in 1..Len(mine) |-> mine[i].ret]

(***************************************************************************)
(* The threads: every /video_feed stream runs mjpeg_generator, every POST  *)
(* runs its handler in a thread of its own; one step per statement of a    *)
(* critical section.                                                       *)
(***************************************************************************)
\* the lock is taken although another thread holds it
CanAcquire_always(lock) == TRUE

\* line 35, threading.Lock: acquire blocks while the lock is held
CanAcquire(lock) == lock = 0

\* the places where a thread waits for state_lock
WantsLock == {"lock", "state", "started", "ended"}

\* the first statement inside each with state_lock block
Inside(at) ==
    CASE at = "lock"    -> "w124"
      [] at = "state"   -> "g176"
      [] at = "started" -> "s191"
      [] at = "ended"   -> "e199"

\* lines 123, 174, 190, 198: with state_lock (entry)
Acquire(t) ==
    /\ pc[t] \in WantsLock
    /\ CanAcquire(state_lock)
    /\ state_lock' = t
    /\ pc' = [pc EXCEPT ![t] = Inside(pc[t])]
    /\ UNCHANGED <<machine, last, picks, fixed, loc>>

\* lines 86-104: the camera does not open (line 88 then uses np, a name the
\* module never binds: NameError ends the generator), or it delivers no
\* frame (the loop retries), or a frame arrives and detection is due or not
\* yet due
ReadFrame(t, outcome) ==
    /\ pc[t] = "frame"
    /\ pc' = [pc EXCEPT ![t] =
                CASE outcome = "closed" -> "dead"
                  [] outcome = "fail" -> "frame"
                  [] outcome = "due"  -> "classify"
                  [] outcome = "skip" -> "overlay"]
    /\ UNCHANGED <<machine, last, picks, fixed, state_lock, loc>>

\* lines 106-121: the classifier runs, outside the lock. What it delivers
\* depends on nothing the threads share, so the model draws it where it is
\* first used (line 124).
Classify(t) ==
    /\ pc[t] = "classify"
    /\ pc' = [pc EXCEPT ![t] = "lock"]
    /\ UNCHANGED <<machine, last, picks, fixed, state_lock, loc>>

\* line 124: next_emotion = dominant, of the result the classifier delivered
Write124(t, result) ==
    /\ pc[t] = "w124"
    /\ loc' = [loc EXCEPT ![t].dominant = Dominant(result),
                          ![t].confidence = Confidence(result)]
    /\ next_emotion' = loc'[t].dominant
    /\ pc' = [pc EXCEPT ![t] = "w125"]
    /\ UNCHANGED <<current_confidence, current_emotion, current_song,
                   song_assigned, song_playing, played_songs, last, picks, fixed,
                   state_lock>>

\* lines 125-129: current_confidence = float(confidence), then the test
Write125(t) ==
    /\ pc[t] = "w125"
    /\ current_confidence' = loc[t].confidence
    /\ pc' = [pc EXCEPT ![t] =
                IF MayAssign(song_assigned, song_playing)
                THEN "pick" ELSE "release"]
    /\ UNCHANGED <<next_emotion, current_emotion, current_song,
                   song_assigned, song_playing, played_songs, last, picks, fixed,
                   state_lock, loc>>

\* lines 131-132: lock the emotion and call get_next_song; an exception
\* leaves the with block (the lock is released) and ends the generator
LockAndPick(t, choice) ==
    /\ pc[t] = "pick"
    /\ LET locked == OrNeutral(next_emotion)
           got == get_next_song(locked, played_songs, choice)
       IN  /\ choice \in Choices(locked, played_songs)
           /\ current_emotion' = locked
           /\ played_songs' = got.played
           /\ loc' = [loc EXCEPT ![t].chosen = got.ret]
           /\ IF got.raised
              THEN /\ pc' = [pc EXCEPT ![t] = "dead"]
                   /\ state_lock' = 0
              ELSE /\ pc' = [pc EXCEPT ![t] = "assign"]
                   /\ UNCHANGED state_lock
    /\ UNCHANGED <<next_emotion, current_confidence, current_song,
                   song_assigned, song_playing, last, picks, fixed>>

\* lines 133-139: assign the song if there is one and its file exists
Assign(t, exists) ==
    /\ pc[t] = "assign"
    /\ IF Accept(loc[t].chosen, exists)
       THEN /\ current_song' = loc[t].chosen
            /\ song_assigned' = TRUE
       ELSE /\ current_song' = None
            /\ song_assigned' = FALSE
    /\ pc' = [pc EXCEPT ![t] = "release"]
    /\ UNCHANGED <<next_emotion, current_confidence, current_emotion,
                   song_playing, played_songs, last, picks, fixed, state_lock, loc>>

\* the end of a with state_lock block; the locals of a loop are dead from
\* here on (each is assigned again before it is read), and the resp of
\* get_state is sent (line 184)
Release(t) ==
    /\ pc[t] = "release"
    /\ state_lock' = 0
    /\ pc' = [pc EXCEPT ![t] = IF t \in Loops THEN "overlay" ELSE "idle"]
    /\ loc' = [loc EXCEPT ![t] = IF t \in Loops THEN NoLocals ELSE NoResp]
    /\ UNCHANGED <<machine, last, picks, fixed>>

\* lines 143-156: the overlay is drawn from next_emotion, current_confidence
\* and current_emotion, read without state_lock, and the frame is sent
Overlay(t) ==
    /\ pc[t] = "overlay"
    /\ pc' = [pc EXCEPT ![t] = "frame"]
    /\ UNCHANGED <<machine, last, picks, fixed, state_lock, loc>>

\* a GET /get_state or a POST /song_started or /song_ended arrives
Request(t, route) ==
    /\ pc[t] = "idle"
    /\ pc' = [pc EXCEPT ![t] = route]
    /\ UNCHANGED <<machine, last, picks, fixed, state_lock, loc>>

\* lines 176-178: resp takes next_emotion, current_emotion, current_confidence
Read176(t) ==
    /\ pc[t] = "g176"
    /\ loc' = [loc EXCEPT ![t].next_emotion = next_emotion,
                          ![t].locked_emotion = current_emotion,
                          ![t].confidence = current_confidence]
    /\ pc' = [pc EXCEPT ![t] = "g179"]
    /\ UNCHANGED <<machine, last, picks, fixed, state_lock>>

\* lines 179-180: resp takes song_assigned and song_playing
Read179(t) ==
    /\ pc[t] = "g179"
    /\ loc' = [loc EXCEPT ![t].song_assigned = song_assigned,
                          ![t].song_playing = song_playing]
    /\ pc' = [pc EXCEPT ![t] = "g181"]
    /\ UNCHANGED <<machine, last, picks, fixed, state_lock>>

\* lines 181-182: resp takes current_song and the url made of it
Read181(t) ==
    /\ pc[t] = "g181"
    /\ loc' = [loc EXCEPT ![t].song_filename = current_song,
                          ![t].song_url = song_url(current_song)]
    /\ pc' = [pc EXCEPT ![t] = "release"]
    /\ UNCHANGED <<machine, last, picks, fixed, state_lock>>

\* line 191: song_playing = True
Started191(t) ==
    /\ pc[t] = "s191"
    /\ song_playing' = TRUE
    /\ pc' = [pc EXCEPT ![t] = "release"]
    /\ UNCHANGED <<next_emotion, current_confidence, current_emotion,
                   current_song, song_assigned, played_songs, last, picks, fixed,
                   state_lock, loc>>

\* line 199: song_playing = False
Ended199(t) ==
    /\ pc[t] = "e199"
    /\ song_playing' = FALSE
    /\ pc' = [pc EXCEPT ![t] = "e200"]
    /\ UNCHANGED <<next_emotion, current_confidence, current_emotion,
                   current_song, song_assigned, played_songs, last, picks, fixed,
                   state_lock, loc>>

\* line 200: song_assigned = False
Ended200(t) ==
    /\ pc[t] = "e200"
    /\ song_assigned' = FALSE
    /\ pc' = [pc EXCEPT ![t] = "e202"]
    /\ UNCHANGED <<next_emotion, current_confidence, current_emotion,
                   current_song, song_playing, played_songs, last, picks, fixed,
                   state_lock, loc>>

\* line 202: current_song = None
Ended202(t) ==
    /\ pc[t] = "e202"
    /\ current_song' = None
    /\ pc' = [pc EXCEPT ![t] = "release"]
    /\ UNCHANGED <<next_emotion, current_confidence, current_emotion,
                   song_assigned, song_playing, played_songs, last, picks, fixed,
                   state_lock, loc>>

\* where the next statement of a thread reads or writes a shared variable
\* (lines 124-139, 143-144, 176-182, 191, 199-202)
Accesses == {"w124", "w125", "pick", "assign", "overlay",
             "g176", "g179", "g181", "s191", "e199", "e200", "e202"}

\* where a thread stands inside a with state_lock block
Critical == {"w124", "w125", "pick", "assign", "release",
             "g176", "g179", "g181", "s191", "e199", "e200", "e202"}

\* where the next statement of a loop calls out: camera.read (line 95),
\* detector.detect_emotions (line 108), os.path.exists (line 133)
External == {"frame", "classify", "assign"}

LoopStep(t) ==
    \/ \E outcome \in {"closed", "fail", "due", "skip"} : ReadFrame(t, outcome)
    \/ Classify(t)
    \/ \E result \in ClassifierResults : Write124(t, result)
    \/ Write125(t)
    \/ \E choice \in Choices(OrNeutral(next_emotion), played_songs) :
            LockAndPick(t, choice)
    \/ \E exists \in BOOLEAN : Assign(t, exists)
    \/ Overlay(t)

ClientStep(t) ==
    \/ \E route \in {"state", "started", "ended"} : Request(t, route)
    \/ Read176(t)
    \/ Read179(t)
    \/ Read181(t)
    \/ Started191(t)
    \/ Ended199(t)
    \/ Ended200(t)
    \/ Ended202(t)

NextThreads ==
    \/ \E t \in Loops : LoopStep(t)
    \/ \E t \in Clients : ClientStep(t)
    \/ \E t \in Loops \cup Clients : Acquire(t) \/ Release(t)

SpecThreads == Init /\ [][NextThreads]_vars

(***************************************************************************)
(* Properties of the rotation policy.                                      *)
(***************************************************************************)
\* C1: for every category with N >= 1 songs, whatever picks for other
\* categories are interleaved, two picks of the same block of N picks
\* (picks k*N+1 .. (k+1)*N of that category) never return the same song, and
\* every completed block returns exactly the songs of the catalog.
C1_NoRepeatWithinCycle ==
    \A e \in Catalog :
        LET p == ReturnedFor(e)
            N == Len(SongsOf(e))
        IN  /\ \A i, j \in 1..Len(p) :
                 (i < j /\ (i - 1) \div N = (j - 1) \div N) => p[i] # p[j]
            /\ \A k \in 0..((Len(p) \div N) - 1) :
                 {p[i] : i \in (k * N + 1)..((k + 1) * N)} = Range(SongsOf(e))

\* a category went through a whole cycle and into the next one while another
\* category was picked in between
C1_Witness ==
    /\ Len(ReturnedFor("happy")) > Len(SongsOf("happy"))
    /\ Len(ReturnedFor("neutral")) >= 1
    /\ picks[1].emotion = "happy"
    /\ picks[Len(picks)].emotion = "happy"

\* C2: a call of get_next_song for a label with no songs (absent from the
\* catalog, or with an empty list) returns None, raises nothing and leaves
\* the history of every category as it was.
C2_NoSongsReturnsNone ==
    [][SongsOf(picks'[Len(picks')].emotion) = <<>> =>
        /\ picks'[Len(picks')].ret = None
        /\ ~last'.raised
        /\ played_songs' = played_songs]_vars

\* a label outside the catalog was picked while a history was not empty
C2_Witness ==
    /\ Len(picks) >= 2
    /\ picks[Len(picks)].emotion \notin Catalog
    /\ picks[Len(picks)].ret = None
    /\ \E e \in Catalog : played_songs[e] # <<>>

(***************************************************************************)
(* Properties of the playback state machine (one step per handler).        *)
(***************************************************************************)
\* the step is a detection tick / a client notification
IsDetect == last'.op = "detect"
IsStarted == last'.op = "song_started"
IsEnded == last'.op = "song_ended"

\* C3 as stated: from every state with no song assigned, a detection tick
\* whose detected category has songs and whose chosen file exists assigns a
\* song of that category and locks the detected emotion.
C3_AssignsWheneverUnassigned ==
    [][(IsDetect /\ ~song_assigned /\ SongsOf(next_emotion') # <<>>
            /\ last'.exists) =>
        /\ song_assigned'
        /\ current_song' \in Range(SongsOf(next_emotion'))
        /\ current_emotion' = next_emotion']_vars

\* C3 amended: the same from every state with no song assigned and the
\* playing flag down.
C3_AssignsFromIdle ==
    [][(IsDetect /\ ~song_assigned /\ ~song_playing
            /\ SongsOf(next_emotion') # <<>> /\ last'.exists) =>
        /\ song_assigned'
        /\ current_song' \in Range(SongsOf(next_emotion'))
        /\ current_song' = last'.chosen
        /\ current_emotion' = next_emotion'
        /\ song_playing' = FALSE]_vars

\* a tick has just assigned a song for an emotion other than the one locked
\* before the previous song ended
C3_Witness ==
    /\ last.op = "detect"
    /\ last.prev = "song_ended"
    /\ song_assigned /\ ~song_playing
    /\ current_song = last.chosen
    /\ current_emotion = "happy"

\* C4: a detection tick taken while a song is assigned changes nothing but
\* next_emotion and current_confidence.
C4_DetectWhileAssigned ==
    [][(IsDetect /\ song_assigned) =>
        UNCHANGED <<current_emotion, current_song, song_assigned,
                    song_playing, played_songs>>]_vars

\* a tick has detected another emotion than the locked one while the song is
\* still assigned
C4_Witness ==
    /\ last.op = "detect"
    /\ last.prev = "detect"
    /\ song_assigned
    /\ next_emotion # current_emotion
    /\ current_song \in Range(SongsOf(current_emotion))

\* C5: song_started raises song_playing and changes nothing else, from any
\* state; a second song_started right after the first changes nothing.
C5_StartedSetsPlaying ==
    [][IsStarted =>
        /\ song_playing' = TRUE
        /\ UNCHANGED <<next_emotion, current_confidence, current_emotion,
                       current_song, song_assigned, played_songs>>
        /\ (last.op = "song_started" => UNCHANGED machine)]_vars

\* song_started was called twice in a row with no song assigned
C5_Witness ==
    /\ last.op = "song_started"
    /\ last.prev = "song_started"
    /\ song_playing
    /\ ~song_assigned

\* C6: song_ended, from any state, lowers song_assigned and song_playing,
\* clears current_song and keeps current_emotion, next_emotion,
\* current_confidence and the history.
C6_EndedClears ==
    [][IsEnded =>
        /\ song_assigned' = FALSE
        /\ song_playing' = FALSE
        /\ current_song' = None
        /\ UNCHANGED <<current_emotion, next_emotion, current_confidence,
                       played_songs>>]_vars

\* a song that was playing has ended and its emotion is still locked
C6_Witness ==
    /\ last.op = "song_ended"
    /\ last.prev = "song_started"
    /\ current_emotion \in Catalog
    /\ played_songs[current_emotion] # <<>>
    /\ ~song_assigned /\ ~song_playing /\ current_song = None

\* C7 as stated: song_ended with no song assigned leaves every variable of
\* the machine unchanged.
C7_EndedWhenUnassignedIsNoOp ==
    [][(IsEnded /\ ~song_assigned) => UNCHANGED machine]_vars

\* C7 amended: song_ended with no song assigned lowers song_playing and
\* leaves every other variable unchanged, so that it changes nothing when
\* song_playing was down already.
C7_EndedWhenIdle ==
    [][(IsEnded /\ ~song_assigned) =>
        /\ song_playing' = FALSE
        /\ UNCHANGED <<next_emotion, current_confidence, current_emotion,
                       current_song, song_assigned, played_songs>>
        /\ (~song_playing => UNCHANGED machine)]_vars

\* song_ended was called twice in a row with an emotion locked
C7_Witness ==
    /\ last.op = "song_ended"
    /\ last.prev = "song_ended"
    /\ current_emotion # None
    /\ ~song_assigned /\ ~song_playing

\* C9: current_emotion changes only in a detection tick that ends with a
\* song assigned.
C9_LockOnlyOnAssignment ==
    [][current_emotion' # current_emotion =>
        (IsDetect /\ song_assigned' /\ current_song' # None)]_vars

\* C10: the history of every category has no duplicates, holds only songs of
\* the category and is never longer than its catalog; a pick that finds the
\* history full returns a song of the catalog and leaves exactly that song
\* in the history; and with a full history every song of the catalog, the
\* one returned last included, can be the next one assigned.
C10_HistoryBounded ==
    /\ [](\A e \in Catalog :
            /\ Cardinality(Range(played_songs[e])) = Len(played_songs[e])
            /\ Range(played_songs[e]) \subseteq Range(SongsOf(e))
            /\ Len(played_songs[e]) <= Len(SongsOf(e)))
    /\ [][\A e \in Catalog :
            (IsDetect /\ ~song_assigned /\ ~song_playing
                /\ next_emotion' = e
                /\ Len(played_songs[e]) = Len(SongsOf(e))) =>
            /\ last'.chosen \in Range(SongsOf(e))
            /\ played_songs'[e] = <<last'.chosen>>
            /\ \A o \in Catalog \ {e} : played_songs'[o] = played_songs[o]]_vars
    /\ [](\A e \in Catalog \cap Emotions :
            (~song_assigned /\ ~song_playing
                /\ Len(played_songs[e]) = Len(SongsOf(e))) =>
            \A s \in Range(SongsOf(e)) :
                ENABLED (/\ Detect([kind |-> "scores", dominant |-> e,
                                    score |-> 0], s, TRUE)
                         /\ current_song' = s))

\* the pick after a full cycle returned the song the cycle ended with
C10_Witness ==
    /\ last.op = "detect"
    /\ last.prev = "song_ended"
    /\ song_assigned
    /\ current_song = "happy2.mp3"
    /\ played_songs["happy"] = <<"happy2.mp3">>
    /\ played_songs["neutral"] = <<"neutral1.mp3", "neutral2.mp3">>

(***************************************************************************)
(* Properties of the threads.                                              *)
(***************************************************************************)
\* C8: under every interleaving of the detection loops with song_started and
\* song_ended requests, whenever no thread is inside a critical section a
\* song is assigned exactly when current_song names one, and that song is a
\* song of the locked emotion; and an assigned song is never replaced by
\* another one: it stays until it is cleared.
C8_OneOutstandingAssignment ==
    /\ [](state_lock = 0 =>
            /\ song_assigned <=> current_song # None
            /\ song_assigned => current_song \in Range(SongsOf(current_emotion)))
    /\ [][(song_assigned /\ current_song # None) =>
            current_song' \in {current_song, None}]_vars

\* a detection loop that found no song assigned is about to pick one while a
\* second loop and a song_ended request wait for the lock
C8_Witness ==
    \E t, u \in Loops, c \in Clients :
        /\ t # u
        /\ state_lock = t
        /\ pc[t] = "pick"
        /\ pc[u] = "lock"
        /\ pc[c] = "ended"
        /\ played_songs["happy"] # <<>>

(***************************************************************************)
(* Further properties of the playback state machine.                       *)
(***************************************************************************)
\* what the classifier delivers when it fails
Failures == {"error", "nofaces", "noscores"}

\* C11: a detection tick taken with no song assigned, for which
\* get_next_song returns None or the file system reports the file missing,
\* ends with no song assigned and current_song None and raises nothing; when
\* the rotation was asked, the test of line 129 holds again afterwards, so
\* that the next tick can assign a song.
C11_NoSongLeavesIdle ==
    /\ [][(IsDetect /\ ~song_assigned
                /\ (last'.chosen = None \/ ~last'.exists)) =>
            /\ song_assigned' = FALSE
            /\ current_song' = None
            /\ ~last'.raised
            /\ song_playing' = song_playing]_vars
    /\ [](( /\ last.op = "detect"
            /\ ~song_assigned /\ ~song_playing) =>
            ENABLED (/\ \E choice \in AllSongs :
                            Detect([kind |-> "scores", dominant |-> "neutral",
                                    score |-> 0], choice, TRUE)
                     /\ song_assigned'))

\* a tick chose a song whose file is missing, right after a tick that had
\* found no song either, and the machine is still idle
C11_Witness ==
    /\ last.op = "detect"
    /\ last.prev = "detect"
    /\ last.chosen \in AllSongs
    /\ ~last.exists
    /\ ~song_assigned /\ ~song_playing /\ current_song = None
    /\ played_songs[current_emotion] = <<last.chosen>>

\* C12 as stated: a tick whose classifier raised or delivered no result
\* leaves next_emotion "neutral" and current_confidence 0, and with no song
\* assigned it locks "neutral" and asks the rotation for a neutral song.
C12_FailureLocksNeutralWheneverUnassigned ==
    [][(IsDetect /\ last'.kind \in Failures) =>
        /\ next_emotion' = "neutral"
        /\ current_confidence' = 0
        /\ ~song_assigned =>
            /\ current_emotion' = "neutral"
            /\ last'.chosen \in Range(SongsOf("neutral"))]_vars

\* C12 amended: the same, the lock and the request to the rotation taking
\* place when no song is assigned and song_playing is down; a further tick
\* is possible afterwards.
C12_FailureIsNeutral ==
    /\ [][(IsDetect /\ last'.kind \in Failures) =>
            /\ next_emotion' = "neutral"
            /\ current_confidence' = 0
            /\ (~song_assigned /\ ~song_playing) =>
                /\ current_emotion' = "neutral"
                /\ last'.chosen \in Range(SongsOf("neutral"))
                /\ played_songs'["neutral"] # <<>>
                /\ last'.chosen =
                      played_songs'["neutral"][Len(played_songs'["neutral"])]
            /\ ~last'.raised]_vars
    /\ []((last.op = "detect" /\ last.kind \in Failures) => ENABLED DetectTick)

\* the classifier raised while another emotion was locked and the song had
\* ended: the tick locked "neutral" and assigned a neutral song
C12_Witness ==
    /\ last.op = "detect"
    /\ last.kind = "error"
    /\ last.prev = "song_ended"
    /\ next_emotion = "neutral" /\ current_confidence = 0
    /\ current_emotion = "neutral"
    /\ song_assigned
    /\ played_songs["happy"] # <<>>

\* C17: the flags do not exclude each other: from every state with no song
\* assigned, song_started leads to a state with song_playing up, no song
\* assigned and current_song None.
C17_PlayingWithoutSong ==
    ~song_assigned =>
        ENABLED (/\ song_started
                 /\ song_playing' /\ ~song_assigned' /\ current_song' = None)

\* song_playing is up although no song is assigned
C17_Witness ==
    /\ song_playing
    /\ ~song_assigned
    /\ current_song = None
    /\ last.op = "song_started"

\* C19: while a song is assigned, current_emotion is a key of the catalog,
\* current_song is one of its songs and the last entry of its history; and
\* a song becomes assigned only in a detection tick for which the file
\* system reported the chosen file present.
C19_SongMatchesLockedEmotion ==
    /\ [](song_assigned =>
            /\ current_emotion \in Catalog
            /\ current_song \in Range(SongsOf(current_emotion))
            /\ played_songs[current_emotion] # <<>>
            /\ current_song = played_songs[current_emotion]
                                  [Len(played_songs[current_emotion])])
    /\ [][(~song_assigned /\ song_assigned') =>
            /\ IsDetect
            /\ last'.exists
            /\ last'.chosen = current_song']_vars

\* a song that ends a cycle is playing while another emotion is detected
C19_Witness ==
    /\ song_assigned /\ song_playing
    /\ last.op = "detect"
    /\ next_emotion # current_emotion
    /\ current_emotion \in Catalog
    /\ Len(played_songs[current_emotion]) = Len(SongsOf(current_emotion))

(***************************************************************************)
(* Progress of the playback state machine (SpecLive).                      *)
(***************************************************************************)
\* C15 as stated: from every state with no song assigned, a song is
\* eventually assigned, whatever the client does or does not send.
C15_AssignedWheneverUnassigned ==
    ~song_assigned ~> song_assigned

\* C15 amended: from every state with no song assigned and song_playing
\* down, a song is eventually assigned unless a song_started raises
\* song_playing first; and while song_playing is up with no song assigned,
\* no tick assigns a song (only song_ended ends that).
C15_AssignedFromIdle ==
    /\ (~song_assigned /\ ~song_playing) ~> (song_assigned \/ song_playing)
    /\ [][(~song_assigned /\ song_playing) => ~song_assigned']_vars

\* a tick assigned a song right after song_ended, with no notification in
\* between
C15_Witness ==
    /\ song_assigned /\ ~song_playing
    /\ last.op = "detect"
    /\ last.prev = "song_ended"
    /\ last.exists
    /\ current_song = last.chosen
    /\ Len(played_songs[current_emotion]) = Len(SongsOf(current_emotion))

(***************************************************************************)
(* Bounded response with missing files (SpecFixed).                        *)
(***************************************************************************)
\* C20: with the files fixed and at least one file of category c present,
\* a run of ticks that all detect c, started with no song assigned and
\* song_playing down and not interrupted by the client, assigns a song
\* within 2N-1 ticks, and within N ticks when played_songs[c] was empty,
\* N being the number of songs of c.
C20_AssignedWithinTwoCycles ==
    (streak.n > 0 /\ Range(SongsOf(streak.emotion)) \cap song_files # {}) =>
        LET N == Len(SongsOf(streak.emotion))
        IN  /\ streak.n <= 2 * N - 1
            /\ streak.fresh => streak.n <= N
            /\ streak.n = 2 * N - 1 => streak.done
            /\ (streak.fresh /\ streak.n = N) => streak.done

\* the worst case: the only file present was already in the history, and it
\* is assigned at tick 2N-1 after the missing ones were consumed twice
C20_Witness ==
    /\ streak.n = 2 * Len(SongsOf(streak.emotion)) - 1
    /\ streak.n > 1
    /\ ~streak.fresh
    /\ streak.done
    /\ song_assigned
    /\ current_song \in song_files
    /\ Range(SongsOf(streak.emotion)) \ song_files # {}

(***************************************************************************)
(* Further properties of the threads (SpecThreads).                        *)
(***************************************************************************)
\* C13: every read and every write of a shared variable is made by a thread
\* that holds state_lock, and at most one thread is inside a critical
\* section.
C13_AllAccessUnderLock ==
    /\ \A t \in Loops \cup Clients : pc[t] \in Accesses => state_lock = t
    /\ Cardinality({t \in Loops \cup Clients : pc[t] \in Critical}) <= 1

\* C14: no thread holds state_lock while it reads the camera, runs the
\* classifier or tests whether the song file exists.
C14_NoExternalCallUnderLock ==
    \A t \in Loops : pc[t] \in External => state_lock # t

\* C16: the steps of get_state change no shared variable; when resp is
\* complete it holds the values of the state the machine is in at that
\* moment, whatever the other threads were doing; and song_url is set
\* exactly when song_filename is.
C16_GetStateIsSnapshot ==
    [][\A t \in Clients :
        /\ (pc[t] \in {"state", "g176", "g179", "g181"} /\ pc'[t] # pc[t]) =>
                UNCHANGED <<machine, last, picks>>
        /\ (pc[t] = "g181" /\ pc'[t] = "release") =>
                /\ loc'[t] = [next_emotion |-> next_emotion',
                              locked_emotion |-> current_emotion',
                              confidence |-> current_confidence',
                              song_assigned |-> song_assigned',
                              song_playing |-> song_playing',
                              song_filename |-> current_song',
                              song_url |-> loc'[t].song_url]
                /\ loc'[t].song_url # NoUrl <=> loc'[t].song_filename # None
                /\ loc'[t].song_url # NoUrl =>
                        loc'[t].song_url[2] = loc'[t].song_filename]_vars

\* a complete resp that names the assigned song, built while a detection
\* loop and a song_ended request wait for the lock
C16_Witness ==
    \E t, c \in Clients, u \in Loops :
        /\ pc[t] = "release"
        /\ state_lock = t
        /\ loc[t].song_filename # None
        /\ loc[t].song_url # NoUrl
        /\ loc[t].song_playing
        /\ pc[u] = "lock"
        /\ pc[c] = "ended"

\* C18: an iteration in which the camera does not open or delivers no frame
\* changes no shared variable, goes neither to the classifier nor to the
\* critical section, and leaves the loop at the top of its next iteration.
C18_FrameFailureRetries ==
    [][\A t \in Loops :
        (pc[t] = "frame" /\ pc'[t] \notin {"classify", "overlay"}) =>
            /\ UNCHANGED <<machine, last, picks>>
            /\ pc'[t] = "frame"]_vars

====
